---- MODULE Spec2Model ----
(***************************************************************************)
(* A model of the Sudoku solver of sudoku.py and of the harness main.py.   *)
(*                                                                         *)
(* A grid is a function from the squares 0..80 to 0..9 (0 is the empty     *)
(* square, the character '0' of the source).  A markup is a function from  *)
(* the squares to sequences of digits: the strings of the source, whose    *)
(* character order the search iterates over.  None is the empty sequence.  *)
(***************************************************************************)
EXTENDS Integers, Sequences, FiniteSets, TLC

\* ------------------------------------------------------------------------
\* Bounds of the model and the input boards they select.
\* ------------------------------------------------------------------------

\* How many squares of SiteList may be emptied in an input board.
NumSites == 5

\* How many entries of OverwriteList an input board may carry.
NumOverwrites == 3

\* How many entries of HashOrderList an interpreter process may run under.
NumHashOrders == 2

Squares == 0..80

Digits == 1..9

\* A solved grid (the solution of the classic puzzle 53..7....), row-major.
BaseDigits ==
  << 5,3,4,6,7,8,9,1,2,
     6,7,2,1,9,5,3,4,8,
     1,9,8,3,4,2,5,6,7,
     8,5,9,7,6,1,4,2,3,
     4,2,6,8,5,3,7,9,1,
     7,1,3,9,2,4,8,5,6,
     9,6,1,5,3,7,2,8,4,
     2,8,7,4,1,9,6,3,5,
     3,4,5,2,8,6,1,7,9 >>

Base == [i \in Squares |-> BaseDigits[i + 1]]

\* Squares 3, 4, 30, 31 hold 6 7 / 7 6 in two rows, two columns and two
\* boxes: with all four emptied the board has two completions.
SiteList == << 3, 4, 30, 31, 0, 40, 80, 10 >>

Sites == { SiteList[k] : k \in 1..NumSites }

\* Digits written over a square of Base (unless the square is emptied); each
\* repeats a digit of a unit.
OverwriteList ==
  << [sq |-> 1, digit |-> 5], [sq |-> 4, digit |-> 6],
     [sq |-> 13, digit |-> 6], [sq |-> 79, digit |-> 9] >>

\* The squares that keep their digit in the sparse input boards: none (the
\* blank board), square 0 only, the givens of the classic puzzle, and the
\* givens of a board with several completions on which branches fail.
ClassicGivens ==
  { 0, 1, 4, 9, 12, 13, 14, 19, 20, 25, 27, 31, 35, 36, 39, 41, 44, 45, 49,
    53, 55, 60, 61, 66, 67, 68, 71, 76, 79, 80 }

DeepGivens ==
  { 3, 4, 6, 7, 8, 9, 10, 11, 12, 15, 16, 17, 22, 24, 25, 27, 29, 31, 32, 33,
    36, 37, 38, 41, 44, 45, 47, 48, 49, 51, 53, 54, 55, 59, 60, 63, 67, 68,
    70, 72 }

GivenSets == { {}, {0}, ClassicGivens, DeepGivens }

SiteBoard(S, o) ==
  [i \in Squares |->
     IF i \in S THEN 0
     ELSE IF o > 0 /\ OverwriteList[o].sq = i THEN OverwriteList[o].digit
     ELSE Base[i]]

SparseBoard(G) == [i \in Squares |-> IF i \in G THEN Base[i] ELSE 0]

InputBoards ==
  { SiteBoard(S, o) : S \in SUBSET Sites, o \in 0..NumOverwrites }
    \cup { SparseBoard(G) : G \in GivenSets }

\* Orders in which a set of digit characters may be iterated.
HashOrderList ==
  << << 1, 2, 3, 4, 5, 6, 7, 8, 9 >>,
     << 9, 8, 7, 6, 5, 4, 3, 2, 1 >>,
     << 7, 9, 2, 8, 4, 5, 6, 1, 3 >>,
     << 4, 2, 9, 1, 7, 6, 5, 3, 8 >> >>

HashOrders == { HashOrderList[k] : k \in 1..NumHashOrders }

\* ------------------------------------------------------------------------
\* Topology.
\* ------------------------------------------------------------------------

Range(s) == { s[k] : k \in DOMAIN s }

rows == [r \in 0..8 |-> [k \in 1..9 |-> 9 * r + (k - 1)]]

cols == [c \in 0..8 |-> [k \in 1..9 |-> c + 9 * (k - 1)]]

BoxOrigins == << 0, 3, 6, 27, 30, 33, 54, 57, 60 >>

boxes ==
  [b \in 0..8 |->
     LET i == BoxOrigins[b + 1]
     IN << i, i + 1, i + 2, i + 9, i + 10, i + 11, i + 18, i + 19, i + 20 >>]

units ==
  [i \in Squares |->
     << rows[i \div 9], cols[i % 9], boxes[3 * (i \div 27) + (i % 9) \div 3] >>]

AllUnits == { rows[k] : k \in 0..8 } \cup { cols[k] : k \in 0..8 }
              \cup { boxes[k] : k \in 0..8 }

\* The order in which a set of small integers is iterated.  aoe[i] is built
\* as set(...) - set([i]): the 21 squares of the three units are copied in
\* ascending order into a table of 64 slots (hash of an int is the int),
\* then i is discarded.  A square goes to slot x mod 64, or when that is
\* taken to the first free of the next 9 slots, or else to the slot the
\* perturbed probe (i * 5 + 1 + perturb) mod 64 gives, perturb being shifted
\* right by 5 bits each time; iteration is by slot.
RECURSIVE ProbeSlot(_, _, _)
ProbeSlot(taken, k, perturb) ==
  IF k \notin taken THEN k
  ELSE LET near == { j \in 1..9 : k + j \notin taken }
       IN IF k + 9 <= 63 /\ near # {}
          THEN k + (CHOOSE j \in near : \A j2 \in near : j <= j2)
          ELSE ProbeSlot(taken, (k * 5 + 1 + (perturb \div 32)) % 64,
                         perturb \div 32)

Least(S) == CHOOSE j \in S : \A j2 \in S : j <= j2

\* The table after the squares of S are put in it, in ascending order.
RECURSIVE FillTable(_, _)
FillTable(table, S) ==
  IF S = {} THEN table
  ELSE LET x    == Least(S)
           slot == ProbeSlot(DOMAIN table, x % 64, x)
       IN FillTable([k \in DOMAIN table \cup {slot} |->
                       IF k = slot THEN x ELSE table[k]], S \ {x})

\* The squares of the table other than skip, by slot.
SlotOrder(table, skip) ==
  LET slots == { k \in DOMAIN table : table[k] # skip }
  IN [n \in 1..Cardinality(slots) |->
        table[CHOOSE k \in slots :
                 Cardinality({ j \in slots : j < k }) = n - 1]]

aoe ==
  [i \in Squares |->
     SlotOrder(FillTable(<< >>,
                 UNION { Range(units[i][u]) : u \in 1..3 }), i)]

fullset == Digits

\* ------------------------------------------------------------------------
\* State.
\* ------------------------------------------------------------------------

VARIABLES
  grid,       \* the board the harness reads
  hashOrder,  \* the order in which this process iterates a set of digits
  pc,         \* main, run (the top call takes its next step), ret (a call
              \* has just returned), done, raised
  m,          \* the list that assign and eliminate are working on
  ret,        \* the value the last call returned
  stack,      \* the calls in progress, the innermost last
  run,        \* which run of the harness this is, 1 or 2
  prev        \* how the previous run ended

vars == << grid, hashOrder, pc, m, ret, stack, run, prev >>

\* ------------------------------------------------------------------------
\* Markup.
\* ------------------------------------------------------------------------

None == << >>

IsNone(x) == DOMAIN x = {}

\* ''.join(S): the digits of S in the iteration order of the set.
Join(S) == SelectSeq(hashOrder, LAMBDA d : d \in S)

\* markup without its "if grid[i] == '0' else grid[i]": every square is
\* given the digits its peers leave.
markup_NoFixed(g) ==
  [i \in Squares |-> Join(fullset \ { g[j] : j \in Range(aoe[i]) })]

markup(g) ==
  [i \in Squares |->
     IF g[i] = 0
     THEN Join(fullset \ { g[j] : j \in Range(aoe[i]) })
     ELSE << g[i] >>]

quick_check(g) ==
  \A s \in AllUnits :
     \A k1, k2 \in 1..9 :
        (k1 # k2 /\ g[s[k1]] # 0) => g[s[k1]] # g[s[k2]]

\* v in s
In(v, s) == \E k \in DOMAIN s : s[k] = v

\* s.replace(v, '')
Replace(s, v) == SelectSeq(s, LAMBDA d : d # v)

solved(x) == \A i \in Squares : Len(x[i]) = 1

\* The value of min_i when the loop over the squares never assigns it.
Unbound == -1

\* The selection loop with 0 < len(s) for 1 < len(s).
RECURSIVE SelectLoop_FromOne(_, _, _, _)
SelectLoop_FromOne(x, i, min_len, min_i) ==
  LET hits == { j \in i..80 : 0 < Len(x[j]) /\ Len(x[j]) < min_len }
  IN IF hits = {} THEN min_i
     ELSE LET j == Least(hits)
          IN IF Len(x[j]) = 2 THEN j
             ELSE SelectLoop_FromOne(x, j + 1, Len(x[j]), j)

\* for i, s in enumerate(m): ..., from square i on.  The squares that fail
\* the test 1 < len(s) < min_len are passed over; at the next that meets it,
\* min_i = i, and the loop breaks if len(s) == 2 or goes on with
\* min_len = len(s).
RECURSIVE SelectLoop(_, _, _, _)
SelectLoop(x, i, min_len, min_i) ==
  LET hits == { j \in i..80 : 1 < Len(x[j]) /\ Len(x[j]) < min_len }
  IN IF hits = {} THEN min_i
     ELSE LET j == Least(hits)
          IN IF Len(x[j]) = 2 THEN j
             ELSE SelectLoop(x, j + 1, Len(x[j]), j)

SelectSquare(x) == SelectLoop(x, 0, 9, Unbound)

\* ------------------------------------------------------------------------
\* The calls in progress.
\* ------------------------------------------------------------------------

\* A call of solve: x is its markup; once in the branch loop, i is min_i,
\* s the string m[min_i] it iterates over and k how far it has come in it.
\* ph is enter (at its first line), assign (waiting for assign) or solve
\* (waiting for the recursive solve).
SolveFrame(x) ==
  [fn |-> "solve", ph |-> "enter", x |-> x, i |-> Unbound, v |-> 0,
   s |-> << >>, k |-> 0]

\* A call of assign(m, i, v): s is the string m[i] was when the loop began,
\* k how far the loop has come in it.
AssignFrame(i, v, s) ==
  [fn |-> "assign", ph |-> "loop", x |-> None, i |-> i, v |-> v,
   s |-> s, k |-> 0]

\* A call of eliminate(m, i, v): ph is enter, peers (s is w, k how many
\* squares of aoe[i] are done) or units (k how many units are done).
EliminateFrame(i, v) ==
  [fn |-> "eliminate", ph |-> "enter", x |-> None, i |-> i, v |-> v,
   s |-> << >>, k |-> 0]

Top == stack[Len(stack)]

Pop == SubSeq(stack, 1, Len(stack) - 1)

SetTop(f) == [stack EXCEPT ![Len(stack)] = f]

Push(f, g) == Append(SetTop(f), g)

At(fn, ph) == pc = "run" /\ stack # << >> /\ Top.fn = fn /\ Top.ph = ph

NoRun == [kind |-> "none", value |-> None]

Init ==
  /\ grid \in InputBoards
  /\ hashOrder \in HashOrders
  /\ pc = "main"
  /\ m = None
  /\ ret = None
  /\ stack = << >>
  /\ run = 1
  /\ prev = NoRun

\* ------------------------------------------------------------------------
\* main.py
\* ------------------------------------------------------------------------

\* m = markup(grid); solution = solve(m)
Main ==
  /\ pc = "main"
  /\ stack' = << SolveFrame(markup(grid)) >>
  /\ pc' = "run"
  /\ UNCHANGED << grid, hashOrder, m, ret, run, prev >>

\* The outermost call of solve returns to main.py.
ReturnToMain ==
  /\ pc = "ret"
  /\ stack = << >>
  /\ pc' = "done"
  /\ UNCHANGED << grid, hashOrder, m, ret, stack, run, prev >>

\* The harness is run again on the same board, in a new process.
Rerun ==
  /\ pc \in { "done", "raised" }
  /\ run = 1
  /\ run' = 2
  /\ prev' = [kind |-> pc, value |-> IF pc = "done" THEN ret ELSE None]
  /\ hashOrder' \in HashOrders
  /\ pc' = "main"
  /\ m' = None
  /\ ret' = None
  /\ stack' = << >>
  /\ UNCHANGED grid

\* ------------------------------------------------------------------------
\* solve
\* ------------------------------------------------------------------------

\* if not m: return None
SolveNone ==
  /\ At("solve", "enter")
  /\ IsNone(Top.x)
  /\ stack' = Pop
  /\ ret' = None
  /\ pc' = "ret"
  /\ UNCHANGED << grid, hashOrder, m, run, prev >>

\* if solved(m): return m
SolveSolved ==
  /\ At("solve", "enter")
  /\ ~IsNone(Top.x)
  /\ solved(Top.x)
  /\ stack' = Pop
  /\ ret' = Top.x
  /\ pc' = "ret"
  /\ UNCHANGED << grid, hashOrder, m, run, prev >>

\* The selection loop ends with min_i bound: enter the branch loop.
SolveSelect ==
  /\ At("solve", "enter")
  /\ ~IsNone(Top.x)
  /\ ~solved(Top.x)
  /\ SelectSquare(Top.x) # Unbound
  /\ LET min_i == SelectSquare(Top.x)
     IN stack' = SetTop([Top EXCEPT !.ph = "loop", !.i = min_i,
                                    !.s = Top.x[min_i], !.k = 0])
  /\ UNCHANGED << grid, hashOrder, pc, m, ret, run, prev >>

\* The selection loop ends with min_i never assigned: m[min_i] raises
\* UnboundLocalError, which no caller catches.
SolveUnbound ==
  /\ At("solve", "enter")
  /\ ~IsNone(Top.x)
  /\ ~solved(Top.x)
  /\ SelectSquare(Top.x) = Unbound
  /\ pc' = "raised"
  /\ UNCHANGED << grid, hashOrder, m, ret, stack, run, prev >>

\* for v in m[min_i]: assign(m[:], min_i, v)
SolveBranch ==
  /\ At("solve", "loop")
  /\ Top.k < Len(Top.s)
  /\ m' = Top.x
  /\ stack' = Push([Top EXCEPT !.ph = "assign", !.k = Top.k + 1],
                   AssignFrame(Top.i, Top.s[Top.k + 1], Top.x[Top.i]))
  /\ UNCHANGED << grid, hashOrder, pc, ret, run, prev >>

\* n = solve(assign(...)): assign has returned, solve is called on its value.
SolveRecurse ==
  /\ pc = "ret"
  /\ stack # << >>
  /\ Top.fn = "solve"
  /\ Top.ph = "assign"
  /\ stack' = Push([Top EXCEPT !.ph = "solve"], SolveFrame(ret))
  /\ pc' = "run"
  /\ UNCHANGED << grid, hashOrder, m, ret, run, prev >>

\* if n: return n
BranchSucceeds ==
  /\ pc = "ret"
  /\ stack # << >>
  /\ Top.fn = "solve"
  /\ Top.ph = "solve"
  /\ ~IsNone(ret)
  /\ stack' = Pop
  /\ UNCHANGED << grid, hashOrder, pc, m, ret, run, prev >>

\* n is None: the loop goes on with the next value.
BranchFails ==
  /\ pc = "ret"
  /\ stack # << >>
  /\ Top.fn = "solve"
  /\ Top.ph = "solve"
  /\ IsNone(ret)
  /\ stack' = SetTop([Top EXCEPT !.ph = "loop"])
  /\ pc' = "run"
  /\ UNCHANGED << grid, hashOrder, m, ret, run, prev >>

\* The loop is exhausted: return None
SolveExhausted ==
  /\ At("solve", "loop")
  /\ Top.k = Len(Top.s)
  /\ stack' = Pop
  /\ ret' = None
  /\ pc' = "ret"
  /\ UNCHANGED << grid, hashOrder, m, run, prev >>

\* ------------------------------------------------------------------------
\* assign
\* ------------------------------------------------------------------------

\* The loop of assign without its "if w != v".
Others_NoFilter(s, k, v) == (k + 1)..Len(s)

\* The characters of s after the k-th that differ from v.
Others(s, k, v) == { j \in (k + 1)..Len(s) : s[j] # v }

\* all(eliminate(m, i, w) for w in m[i] if w != v): the next w.
AssignNext ==
  /\ At("assign", "loop")
  /\ Others(Top.s, Top.k, Top.v) # {}
  /\ LET k == Least(Others(Top.s, Top.k, Top.v))
     IN stack' = Push([Top EXCEPT !.k = k], EliminateFrame(Top.i, Top.s[k]))
  /\ UNCHANGED << grid, hashOrder, pc, m, ret, run, prev >>

\* all(...) is true: return m
AssignDone ==
  /\ At("assign", "loop")
  /\ Others(Top.s, Top.k, Top.v) = {}
  /\ stack' = Pop
  /\ ret' = m
  /\ pc' = "ret"
  /\ UNCHANGED << grid, hashOrder, m, run, prev >>

\* ------------------------------------------------------------------------
\* eliminate
\* ------------------------------------------------------------------------

\* if v not in m[i]: return m
EliminateAbsent ==
  /\ At("eliminate", "enter")
  /\ ~In(Top.v, m[Top.i])
  /\ stack' = Pop
  /\ ret' = m
  /\ pc' = "ret"
  /\ UNCHANGED << grid, hashOrder, m, run, prev >>

\* w = m[i] = m[i].replace(v, ''); if not w: return None
EliminateLast ==
  /\ At("eliminate", "enter")
  /\ In(Top.v, m[Top.i])
  /\ Replace(m[Top.i], Top.v) = << >>
  /\ m' = [m EXCEPT ![Top.i] = << >>]
  /\ stack' = Pop
  /\ ret' = None
  /\ pc' = "ret"
  /\ UNCHANGED << grid, hashOrder, run, prev >>

\* w = m[i] = m[i].replace(v, ''), w not empty; if len(w) == 1 the loop over
\* aoe[i] begins, otherwise the loop over units[i].
EliminateRemove ==
  /\ At("eliminate", "enter")
  /\ In(Top.v, m[Top.i])
  /\ LET w == Replace(m[Top.i], Top.v)
     IN /\ w # << >>
        /\ m' = [m EXCEPT ![Top.i] = w]
        /\ stack' = SetTop([Top EXCEPT
                              !.ph = IF Len(w) = 1 THEN "peers" ELSE "units",
                              !.s = w, !.k = 0])
  /\ UNCHANGED << grid, hashOrder, pc, ret, run, prev >>

\* The squares of aoe[f.i] after the k-th that have w as a candidate; for
\* the others eliminate(m, j, w) returns m at its first line.
PeersLeft(f) ==
  { k \in (f.k + 1)..Len(aoe[f.i]) : In(f.s[1], m[aoe[f.i][k]]) }

\* all(eliminate(m, j, w) for j in aoe[i]): the next j that has w.
PeersNext ==
  /\ At("eliminate", "peers")
  /\ PeersLeft(Top) # {}
  /\ LET k == Least(PeersLeft(Top))
     IN stack' = Push([Top EXCEPT !.k = k],
                      EliminateFrame(aoe[Top.i][k], Top.s[1]))
  /\ UNCHANGED << grid, hashOrder, pc, m, ret, run, prev >>

\* all(...) is true: go on to the loop over units[i].
PeersDone ==
  /\ At("eliminate", "peers")
  /\ PeersLeft(Top) = {}
  /\ stack' = SetTop([Top EXCEPT !.ph = "units", !.k = 0])
  /\ UNCHANGED << grid, hashOrder, pc, m, ret, run, prev >>

\* places = [j for j in unit if v in m[j]], for the unit after the k-th.
Places(f) == SelectSeq(units[f.i][f.k + 1], LAMBDA j : In(f.v, m[j]))

\* if not places: return None
UnitNoPlace ==
  /\ At("eliminate", "units")
  /\ Top.k < 3
  /\ Places(Top) = << >>
  /\ stack' = Pop
  /\ ret' = None
  /\ pc' = "ret"
  /\ UNCHANGED << grid, hashOrder, m, run, prev >>

\* if len(places) == 1: assign(m, places[0], v)
UnitOnePlace ==
  /\ At("eliminate", "units")
  /\ Top.k < 3
  /\ Len(Places(Top)) = 1
  /\ LET j == Places(Top)[1]
     IN stack' = Push([Top EXCEPT !.k = Top.k + 1], AssignFrame(j, Top.v, m[j]))
  /\ UNCHANGED << grid, hashOrder, pc, m, ret, run, prev >>

\* More than one place: the next unit.
UnitMorePlaces ==
  /\ At("eliminate", "units")
  /\ Top.k < 3
  /\ Len(Places(Top)) > 1
  /\ stack' = SetTop([Top EXCEPT !.k = Top.k + 1])
  /\ UNCHANGED << grid, hashOrder, pc, m, ret, run, prev >>

\* The loop over units[i] is over: return m
UnitsDone ==
  /\ At("eliminate", "units")
  /\ Top.k = 3
  /\ stack' = Pop
  /\ ret' = m
  /\ pc' = "ret"
  /\ UNCHANGED << grid, hashOrder, m, run, prev >>

\* ------------------------------------------------------------------------
\* A call made by assign or eliminate returns.
\* ------------------------------------------------------------------------

\* The call returned m: all(...) goes on, the loop over the units goes on.
CalleeSucceeds ==
  /\ pc = "ret"
  /\ stack # << >>
  /\ Top.fn \in { "assign", "eliminate" }
  /\ ~IsNone(ret)
  /\ pc' = "run"
  /\ UNCHANGED << grid, hashOrder, m, ret, stack, run, prev >>

\* The call returned None: return None
CalleeFails ==
  /\ pc = "ret"
  /\ stack # << >>
  /\ Top.fn \in { "assign", "eliminate" }
  /\ IsNone(ret)
  /\ stack' = Pop
  /\ UNCHANGED << grid, hashOrder, pc, m, ret, run, prev >>

Next ==
  \/ Main
  \/ ReturnToMain
  \/ Rerun
  \/ SolveNone
  \/ SolveSolved
  \/ SolveSelect
  \/ SolveUnbound
  \/ SolveBranch
  \/ SolveRecurse
  \/ BranchSucceeds
  \/ BranchFails
  \/ SolveExhausted
  \/ AssignNext
  \/ AssignDone
  \/ EliminateAbsent
  \/ EliminateLast
  \/ EliminateRemove
  \/ PeersNext
  \/ PeersDone
  \/ UnitNoPlace
  \/ UnitOnePlace
  \/ UnitMorePlaces
  \/ UnitsDone
  \/ CalleeSucceeds
  \/ CalleeFails

Spec == Init /\ [][Next]_vars

TypeOK ==
  /\ pc \in { "main", "run", "ret", "done", "raised" }
  /\ run \in 1..2

\* ------------------------------------------------------------------------
\* Properties.
\* ------------------------------------------------------------------------

\* The run is over and solve returned a markup.
Returned == pc = "done" /\ ~IsNone(ret)

\* The run is over, by a return to main.py or by an exception.
Ended == pc \in { "done", "raised" }

\* Every unit of the markup x holds each digit exactly once.
UnitsArePermutations(x) ==
  \A u \in AllUnits :
     \A d \in Digits : Cardinality({ k \in 1..9 : x[u[k]] = << d >> }) = 1

HasFixed(g) == \E i \in Squares : g[i] # 0

IsBlank(g) == \A i \in Squares : g[i] = 0

\* The search has something to do on the board g.
NeedsSearch(g) == \E i \in Squares : Len(markup(g)[i]) > 1

\* The calls of solve in progress: they are the first frames of the stack,
\* the calls of assign and eliminate being made by the innermost of them.
SolveIdx == { k \in DOMAIN stack : stack[k].fn = "solve" }

\* The innermost call of solve (0 when there is none).
Innermost == Cardinality(SolveIdx)

\* The number of squares of x with more than one candidate.
Undetermined(x) == Cardinality({ i \in Squares : Len(x[i]) > 1 })

\* C1: whenever solve(markup(board)) returns a markup, each of the 27 units
\* of the result holds each digit 1-9 exactly once.
C1_UnitsPermutations == Returned => UnitsArePermutations(ret)

\* C2: whenever solve(markup(board)) returns a markup, every square that
\* holds a digit in the board holds exactly that digit in the result.
C2_FixedDigitsKept ==
  Returned => \A i \in Squares : grid[i] # 0 => ret[i] = << grid[i] >>

\* A board with fixed digits, on which the search had to branch, is solved.
C2_Witness == Returned /\ HasFixed(grid) /\ NeedsSearch(grid)

\* Complete grids known to be valid: Base, and Base with the digits of the
\* squares 3, 4, 30, 31 exchanged.
KnownSolutions ==
  { Base, [Base EXCEPT ![3] = 7, ![4] = 6, ![30] = 6, ![31] = 7] }

IsValidGrid(s) ==
  \A u \in AllUnits : { s[u[k]] : k \in 1..9 } = Digits

\* The known valid completions of the board g.
Completions(g) ==
  { s \in KnownSolutions :
      (\A i \in Squares : g[i] # 0 => g[i] = s[i]) /\ IsValidGrid(s) }

\* The grid s is still possible in the markup x.
Admits(x, s) == ~IsNone(x) /\ \A i \in Squares : In(s[i], x[i])

\* The call of solve at stack[k] is trying, for its square, the digit of s,
\* on a markup that admits s.
OnBranchOf(k, s) ==
  /\ stack[k].ph \in { "assign", "solve" }
  /\ stack[k].s[stack[k].k] = s[stack[k].i]
  /\ Admits(stack[k].x, s)

\* C3: on a board with a fixed digit and a valid completion the run ends
\* with a solved markup, never None or an exception; and on a branch that
\* contains a valid completion s, assign and eliminate never return None
\* nor remove a digit of s, the recursive call of solve is given a markup
\* that admits s, and it does not return None.  (The branch is looked at
\* while its call of solve is the innermost one or the caller of the
\* innermost one: every call is, when it is made.)
C3_Complete ==
  (HasFixed(grid) /\ Completions(grid) # {}) =>
     /\ pc # "raised"
     /\ pc = "done" => (~IsNone(ret) /\ solved(ret))
     /\ \A s \in Completions(grid) :
          LET n == Innermost
          IN /\ (n >= 1 /\ stack[n].ph = "assign" /\ OnBranchOf(n, s)) =>
                   IF pc = "ret" THEN Admits(ret, s) ELSE Admits(m, s)
             /\ (n >= 1 /\ stack[n].ph = "solve" /\ OnBranchOf(n, s)) =>
                   ~IsNone(ret)
             /\ (n >= 2 /\ OnBranchOf(n - 1, s)) => Admits(stack[n].x, s)

\* A board with a fixed digit and a completion is solved after a branch of
\* the search has failed and another one was tried.
C3_Witness ==
  /\ HasFixed(grid) /\ Completions(grid) # {}
  /\ pc = "ret" /\ ~IsNone(ret) /\ solved(ret)
  /\ stack # << >> /\ Top.fn = "solve" /\ Top.ph = "solve" /\ Top.k > 1

\* C4: a board in which a unit holds the same digit twice makes
\* solve(markup(board)) return None.
C4_DuplicateUnsatisfiable == (pc = "done" /\ ~quick_check(grid)) => IsNone(ret)

\* C5: on the blank board solve(markup(board)) returns a markup in which
\* every square has one candidate and every unit is a permutation of 1-9.
C5_BlankBoardSolved ==
  (Ended /\ IsBlank(grid)) =>
     (Returned /\ solved(ret) /\ UnitsArePermutations(ret))

\* markup leaves an empty square of the board g without any candidate.
HasEmptyCandidates(g) ==
  \E i \in Squares : g[i] = 0 /\ markup(g)[i] = << >>

\* C6: on a board for which markup leaves an empty square without any
\* candidate, solve(markup(board)) returns None: it raises no exception
\* and returns no markup.
C6_EmptySetReturnsNone ==
  (Ended /\ HasEmptyCandidates(grid)) => (pc = "done" /\ IsNone(ret))

\* C7: two runs of the harness on the same board end the same way, with
\* the same return value.
C7_Deterministic ==
  (run = 2 /\ Ended) =>
     (prev.kind = pc /\ prev.value = (IF pc = "done" THEN ret ELSE None))

\* The square i has more than one candidate in x, no square with more than
\* one candidate has fewer, and none before i has as few.
IsMinimumSquare(x, i) ==
  /\ i \in Squares
  /\ Len(x[i]) > 1
  /\ \A j \in Squares :
       Len(x[j]) > 1 =>
          (Len(x[i]) < Len(x[j]) \/ (Len(x[i]) = Len(x[j]) /\ i <= j))

\* C8: every call of solve on a markup that is neither None nor solved and
\* has a square with more than one candidate, once past the selection
\* loop, has selected the lowest square of the least number (2 to 9) of
\* candidates.
C8_MinimumSquare ==
  \A k \in SolveIdx :
     LET f == stack[k]
     IN (/\ ~IsNone(f.x)
         /\ ~solved(f.x)
         /\ \E j \in Squares : Len(f.x[j]) > 1
         /\ (f.ph # "enter" \/ pc = "raised"))
        => IsMinimumSquare(f.x, f.i)

\* C9: a call of solve in its branch loop tries the candidates of its
\* square in increasing order: the value on trial is greater than those
\* tried before and smaller than those still to try; assign is given a copy
\* of the markup of the call; and a value that succeeds ends the loop.
C9_IncreasingOrder ==
  \A k \in SolveIdx :
     LET f == stack[k]
     IN f.ph \in { "assign", "solve" } =>
          \A j \in 1..Len(f.s) :
             /\ j < f.k => f.s[j] < f.s[f.k]
             /\ j > f.k => f.s[j] > f.s[f.k]

\* C10: a call of solve made by solve on a markup that is not None is given
\* fewer undetermined squares than its caller has; a successful assign
\* leaves its square with the assigned digit only, and the list under
\* propagation never has a candidate the markup of the branching call has
\* not; and the number of nested calls of solve below the outermost one
\* never exceeds the number of undetermined squares of the initial markup,
\* nor 81.  (A call is compared with its caller while it is the innermost
\* one: every call is, when it is made, and the markup of a call does not
\* change.)
C10_DepthBounded ==
  LET n == Innermost
  IN /\ (n >= 2 /\ ~IsNone(stack[n].x)) =>
          Undetermined(stack[n].x) < Undetermined(stack[n - 1].x)
     /\ (n >= 1 /\ stack[n].ph = "assign") =>
          /\ \A i \in Squares : Range(m[i]) \subseteq Range(stack[n].x[i])
          /\ (pc = "ret" /\ n = Len(stack) /\ ~IsNone(ret)) =>
                ret[stack[n].i] = << stack[n].s[stack[n].k] >>
     /\ n >= 1 => (n - 1 <= Undetermined(stack[1].x) /\ n - 1 <= 81)

\* Three calls of solve are nested and the innermost has a markup.
C10_Witness ==
  /\ Innermost >= 3
  /\ Top.fn = "solve"
  /\ ~IsNone(Top.x)

====
